---- MODULE Spec2Model ----
(***************************************************************************)
(* Health and readiness reporting of the stock-analysis services.          *)
(*                                                                         *)
(* One process is modelled.  It runs either the generic HealthChecker      *)
(* (src/shared/health_check.py) or the intelligent-core health module      *)
(* (src/services/intelligent-core-service/health.py); impl says which.     *)
(*                                                                         *)
(* All handlers and the startup event are coroutines of one asyncio event  *)
(* loop.  A coroutine gives the loop away only where it suspends; the only *)
(* suspending await of the two modules is asyncio.sleep(2) of the startup  *)
(* event.  The dependency probes and psutil are blocking calls: while a    *)
(* handler is inside one, the wall clock and the dependencies move on but  *)
(* no other coroutine of the process runs.                                 *)
(***************************************************************************)
EXTENDS Integers, Sequences, FiniteSets, TLC

\* ---- bounds of the model ----
MaxClock == 2      \* wall-clock readings are 0..MaxClock
BootClock == 1     \* wall-clock reading when the process is constructed
MaxApps == 2       \* apps created from one HealthChecker
MaxConns == 3      \* open probe connections; a readiness request starts only
                   \* if its three probes fit under it
HistLen == 2       \* /health responses remembered, the latest included

VARIABLES
    impl,           \* "generic" | "core": the health module this process runs
    service_name,   \* self.service_name / SERVICE_NAME
    service_version,\* self.service_version / SERVICE_VERSION
    startup_time,   \* self.startup_time / startup_time
    is_ready,       \* self.is_ready / is_ready
    startup,        \* per app: position of its startup_event coroutine
    now,            \* the UTC wall clock, as datetime.utcnow() reads it
    req,            \* the request being handled, or the last one handled
    hlog,           \* the last HistLen results of /health that were returned
    environ,        \* os.environ: the four port variables
    config,         \* the ports parsed at construction
    phase,          \* "new" | "constructed" | "failed": the construction
    conns,          \* connections opened by probes and not closed
    hc,             \* the run of the LXC health-check script
    infra           \* the InfrastructureTest object and its run

vars == <<impl, service_name, service_version, startup_time, is_ready,
          startup, now, req, hlog, environ, config, phase, conns, hc, infra>>

\* What no request handler and no startup event writes.
static == <<impl, service_name, service_version, startup_time, environ,
            config, phase>>

Clock == 0..MaxClock
Apps == 1..MaxApps
Deps == {"database", "redis", "rabbitmq"}

\* What a dependency does when a probe step talks to it: it answers ("up"),
\* it refuses or drops the connection ("down"), or it accepts and then never
\* answers ("silent").
Modes == {"up", "down", "silent"}

HTTP_200_OK == 200
HTTP_503_SERVICE_UNAVAILABLE == 503

\* ---- results of a handler ----
NoResult == [kind |-> "none"]
Returned(code, body) == [kind |-> "response", code |-> code, body |-> body]
Raised(err) == [kind |-> "raised", error |-> err]

NoLoc == [uptime |-> 0, status |-> "", ready |-> FALSE, service |-> FALSE,
          database |-> FALSE, redis |-> FALSE, rabbitmq |-> FALSE]
NoObs == [database |-> <<>>, redis |-> <<>>, rabbitmq |-> <<>>]

\* A request frame.  r0, obs, prior and trace record, for the properties,
\* what the handler read and did: is_ready when the request was taken up,
\* what each dependency did at each probe step, the verdict of the readiness
\* request answered just before this one ("none" if the previous request
\* was not one), and the calls and returns of the probes in order.
Idle == [endpoint |-> "none", pc |-> "none", r0 |-> FALSE, loc |-> NoLoc,
         obs |-> NoObs, prior |-> "none", trace |-> <<>>,
         result |-> NoResult]

Call(d) == [dep |-> d, ev |-> "call"]
Return(d) == [dep |-> d, ev |-> "return"]

\* The verdict of the request in frame r, if r is an answered readiness
\* request.
PriorOf(r) ==
    IF r.endpoint = "/health/ready" /\ r.pc = "done"
                                    /\ r.result.kind = "response"
    THEN (IF r.result.body.ready THEN "ready" ELSE "notready")
    ELSE "none"

\* "healthy" if self.is_ready else "starting"
StatusOf(ready) == IF ready THEN "healthy" ELSE "starting"

\* status.HTTP_200_OK if <flag> else status.HTTP_503_SERVICE_UNAVAILABLE
StatusCode(flag) == IF flag THEN HTTP_200_OK ELSE HTTP_503_SERVICE_UNAVAILABLE

\* any(checks.values()) in place of all(checks.values()).
AllValuesAny(checks) == \E k \in DOMAIN checks : checks[k]

\* all(checks.values())
AllValues(checks) == \A k \in DOMAIN checks : checks[k]

\* The program points of a handler at which its coroutine is suspended and
\* the event loop runs other coroutines.  get_health_status, the probes and
\* get_system_metrics contain no suspending await.
SuspendPoints == {}

\* The event loop is not inside a handler.
LoopFree == req.pc \in ({"none", "done"} \cup SuspendPoints)

AppExists == \E a \in Apps : startup[a] # "absent"

\* ---- configuration from the environment ----

PortVars == {"SERVICE_PORT", "POSTGRES_PORT", "REDIS_PORT", "RABBITMQ_PORT"}

\* The port variables a module parses: HealthChecker.__init__ all four, the
\* intelligent-core module SERVICE_PORT only.
ReadVars(i) == IF i = "core" THEN {"SERVICE_PORT"} ELSE PortVars

\* The second argument of os.getenv for each port variable.
DefaultPort(i, v) ==
    CASE v = "SERVICE_PORT" -> (IF i = "core" THEN 8001 ELSE 8000)
      [] v = "POSTGRES_PORT" -> 5432
      [] v = "REDIS_PORT" -> 6379
      [] v = "RABBITMQ_PORT" -> 5672

\* A string is a sequence of characters.
Whitespace == {" ", "\n"}
Digits == {"0", "1", "2", "3", "4", "5", "6", "7", "8", "9"}
DigitVal(c) == CASE c = "0" -> 0 [] c = "1" -> 1 [] c = "2" -> 2 [] c = "3" -> 3
                 [] c = "4" -> 4 [] c = "5" -> 5 [] c = "6" -> 6 [] c = "7" -> 7
                 [] c = "8" -> 8 [] c = "9" -> 9

RECURSIVE LStrip(_)
LStrip(s) == IF s # <<>> /\ s[1] \in Whitespace THEN LStrip(Tail(s)) ELSE s

RECURSIVE RStrip(_)
RStrip(s) == IF s # <<>> /\ s[Len(s)] \in Whitespace
             THEN RStrip(SubSeq(s, 1, Len(s) - 1)) ELSE s

\* str.strip()
Strip(s) == RStrip(LStrip(s))

RECURSIVE DecimalValue(_)
DecimalValue(s) == IF s = <<>> THEN 0
                   ELSE 10 * DecimalValue(SubSeq(s, 1, Len(s) - 1))
                        + DigitVal(s[Len(s)])

\* int(<str>): surrounding whitespace is dropped, one sign is allowed, at
\* least one digit is required; anything else is a ValueError.
ParseInt(s) ==
    LET t == Strip(s)
        signed == t # <<>> /\ t[1] \in {"+", "-"}
        body == IF signed THEN Tail(t) ELSE t
    IN  IF body # <<>> /\ \A i \in 1..Len(body) : body[i] \in Digits
        THEN [ok |-> TRUE,
              value |-> IF signed /\ t[1] = "-" THEN 0 - DecimalValue(body)
                                                ELSE DecimalValue(body)]
        ELSE [ok |-> FALSE, value |-> 0]

Unset == [set |-> FALSE, val |-> <<>>]
SetTo(str) == [set |-> TRUE, val |-> str]

\* int(os.getenv(v, default))
IntOfEnv(e, i, v) ==
    IF e[v].set THEN ParseInt(e[v].val)
                ELSE [ok |-> TRUE, value |-> DefaultPort(i, v)]

NoConfig == [v \in {} |-> 0]

\* The values the port variables take in the model: unset, two that int()
\* accepts and two it rejects.
EnvStrings == {<<"8", "1">>, <<" ", "8", "1", "\n">>, <<"8", "x">>, <<>>}
EnvValues == {Unset} \cup {SetTo(str) : str \in EnvStrings}

\* ---- the LXC health-check script ----

\* The keys of checks in the order main() inserts them.
CheckNames == <<"postgresql", "redis", "rabbitmq",
                "stock-analysis-broker-gateway",
                "stock-analysis-intelligent-core",
                "stock-analysis-event-bus",
                "stock-analysis-monitoring",
                "stock-analysis-frontend">>

PONG == <<"P", "O", "N", "G">>

\* What subprocess.run(..., capture_output=True, text=True) gives: it
\* raises when the command cannot be launched, or it returns the command's
\* return code and standard output.
StdOuts == {<<>>, PONG \o <<"\n">>, PONG \o <<"X", "\n">>, <<"E", "\n">>}
NotLaunched == [kind |-> "raised", returncode |-> 0, stdout |-> <<>>]
Ran(rc, out) == [kind |-> "ran", returncode |-> rc, stdout |-> out]
CmdOutcomes == {NotLaunched} \cup {Ran(rc, out) : rc \in {0, 1}, out \in StdOuts}

\* check_service_status(service_name)
check_service_status(name, o) ==
    IF o.kind = "raised"
    THEN [healthy |-> FALSE, message |-> <<"Failed to check", name>>]
    ELSE LET is_active == o.returncode = 0
         IN  [healthy |-> is_active,
              message |-> <<"Service", name, "is",
                            IF is_active THEN "active" ELSE "inactive">>]

\* check_postgresql()
check_postgresql(o) ==
    IF o.kind = "raised"
    THEN [healthy |-> FALSE, message |-> <<"PostgreSQL check failed">>]
    ELSE IF o.returncode = 0
         THEN [healthy |-> TRUE,
               message |-> <<"PostgreSQL is accepting connections">>]
         ELSE [healthy |-> FALSE,
               message |-> <<"PostgreSQL is not accepting connections">>]

\* A check_redis that goes by the return code of redis-cli.
check_redis_by_code(o) ==
    IF o.kind = "raised"
    THEN [healthy |-> FALSE, message |-> <<"Redis check failed">>]
    ELSE IF o.returncode = 0
         THEN [healthy |-> TRUE, message |-> <<"Redis is responding to ping">>]
         ELSE [healthy |-> FALSE, message |-> <<"Redis is not responding">>]

\* check_redis()
check_redis(o) ==
    IF o.kind = "raised"
    THEN [healthy |-> FALSE, message |-> <<"Redis check failed">>]
    ELSE IF Strip(o.stdout) = PONG
         THEN [healthy |-> TRUE, message |-> <<"Redis is responding to ping">>]
         ELSE [healthy |-> FALSE, message |-> <<"Redis is not responding">>]

\* check_rabbitmq()
check_rabbitmq(o) ==
    IF o.kind = "raised"
    THEN [healthy |-> FALSE, message |-> <<"RabbitMQ check failed">>]
    ELSE IF o.returncode = 0
         THEN [healthy |-> TRUE, message |-> <<"RabbitMQ is running">>]
         ELSE [healthy |-> FALSE, message |-> <<"RabbitMQ is not running">>]

\* The check function main() calls for a key.
RunCheck(name, o) ==
    CASE name = "postgresql" -> check_postgresql(o)
      [] name = "redis" -> check_redis(o)
      [] name = "rabbitmq" -> check_rabbitmq(o)
      [] OTHER -> check_service_status(name, o)

NoReport == [printed |-> FALSE, healthy |-> FALSE, timestamp |-> <<>>,
             checks |-> <<>>]

\* The script before it is started.  checks is the dict of main() as the
\* sequence of its items; last is the command outcome the latest check saw.
HcIdle == [pc |-> "idle", checks |-> <<>>, last |-> NotLaunched,
           report |-> NoReport, exit |-> 0]

\* all(status for status, _ in checks.values())
AllHealthy(checks) == \A i \in 1..Len(checks) : checks[i].healthy

\* The script is started: main() is entered.
hc_start ==
    /\ hc.pc = "idle"
    /\ hc' = [hc EXCEPT !.pc = "checks"]
    /\ UNCHANGED <<static, conns, infra, is_ready, startup, now, req, hlog>>

\* Check functions without their try: the exception of subprocess.run
\* leaves the function and main().
hc_check_unguarded ==
    /\ hc.pc = "checks" /\ Len(hc.checks) < Len(CheckNames)
    /\ \E o \in CmdOutcomes :
          LET name == CheckNames[Len(hc.checks) + 1]
              r == RunCheck(name, o)
          IN  hc' = IF o.kind = "raised"
                    THEN [hc EXCEPT !.pc = "exited", !.last = o, !.exit = 1]
                    ELSE [hc EXCEPT
                            !.checks = Append(@, [name |-> name,
                                                  healthy |-> r.healthy,
                                                  message |-> r.message]),
                            !.last = o]
    /\ UNCHANGED <<static, conns, infra, is_ready, startup, now, req, hlog>>

\* One entry of checks: the next check function is called and its pair is
\* stored under its key.
hc_check ==
    /\ hc.pc = "checks" /\ Len(hc.checks) < Len(CheckNames)
    /\ \E o \in CmdOutcomes :
          LET name == CheckNames[Len(hc.checks) + 1]
              r == RunCheck(name, o)
          IN  hc' = [hc EXCEPT
                       !.checks = Append(@, [name |-> name,
                                             healthy |-> r.healthy,
                                             message |-> r.message]),
                       !.last = o]
    /\ UNCHANGED <<static, conns, infra, is_ready, startup, now, req, hlog>>

\* The rest of main(): all_healthy, the output dict with the timestamp taken
\* from `date`, print and sys.exit.  subprocess.run of `date` is called
\* outside any try: when it raises, main() ends with the exception, nothing
\* is printed and the interpreter exits with code 1.
hc_report ==
    /\ hc.pc = "checks" /\ Len(hc.checks) = Len(CheckNames)
    /\ \E o \in CmdOutcomes :
          LET all_healthy == AllHealthy(hc.checks)
          IN  hc' = IF o.kind = "raised"
                    THEN [hc EXCEPT !.pc = "exited", !.last = o, !.exit = 1]
                    ELSE [hc EXCEPT
                            !.pc = "exited", !.last = o,
                            !.report = [printed |-> TRUE,
                                        healthy |-> all_healthy,
                                        timestamp |-> Strip(o.stdout),
                                        checks |-> [i \in 1..Len(hc.checks) |->
                                            [name |-> hc.checks[i].name,
                                             healthy |-> hc.checks[i].healthy,
                                             message |-> hc.checks[i].message]]],
                            !.exit = IF all_healthy THEN 0 ELSE 1]
    /\ UNCHANGED <<static, conns, infra, is_ready, startup, now, req, hlog>>

ScriptNext == hc_start \/ hc_check \/ hc_report

\* ---- the infrastructure test suite (test_lxc_infrastructure.py) ----

\* The host the suite runs on, as far as the suite looks at it.
\*   os        VERSION_ID of /etc/os-release: "12", "11", none, or the file
\*             cannot be read
\*   hostname  socket.gethostname() is the expected container hostname
\*   netifaces the netifaces module: importable, not installed, or one of
\*             its calls fails with an error other than ImportError
\*   ip        the expected container address is configured
\*   python_ok sys.version_info >= (3, 11)
\*   tools     the external commands: they run and succeed, they run and end
\*             with return code 1, or they cannot be launched
\*   services  systemctl is-active succeeds for the three services
\*   node      standard output of node --version, as characters
\*   psql15    psql --version names PostgreSQL 15
\*   groups    the groups `id` lists for the service user
\*   systemd   what systemctl is-system-running says
\*   paths     the directories under the base directory and the marker
\*             file: writable, read-only, missing, or the base directory
\*             cannot be searched by the user running the suite
\*   files     the template, marker and environment files: complete,
\*             without the expected content, unreadable, or missing
GoodHost ==
    [os |-> "12", hostname |-> TRUE, netifaces |-> "present", ip |-> TRUE,
     python_ok |-> TRUE, tools |-> "ok", services |-> TRUE,
     node |-> <<"v", "1", "8", ".", "1", "\n">>, psql15 |-> TRUE,
     groups |-> "both", systemd |-> "running", paths |-> "writable",
     files |-> "complete"]

\* A host on which nothing is set up.
BareHost ==
    [os |-> "11", hostname |-> FALSE, netifaces |-> "absent", ip |-> FALSE,
     python_ok |-> FALSE, tools |-> "absent", services |-> FALSE,
     node |-> <<>>, psql15 |-> FALSE,
     groups |-> "none", systemd |-> "offline", paths |-> "missing",
     files |-> "missing"]

\* A host whose setup stopped half-way.
HalfHost ==
    [os |-> "12", hostname |-> TRUE, netifaces |-> "absent", ip |-> TRUE,
     python_ok |-> TRUE, tools |-> "ok", services |-> FALSE,
     node |-> <<"v", "1", "6", ".", "0", "\n">>, psql15 |-> FALSE,
     groups |-> "redis", systemd |-> "degraded", paths |-> "readonly",
     files |-> "incomplete"]

\* The hosts of the model: the host set up as expected, every host that
\* differs from it in one respect, the same without netifaces, the
\* half-way host and the bare host.
Hosts ==
    {GoodHost, BareHost}
    \cup {HalfHost}
    \cup {[GoodHost EXCEPT !.os = v] : v \in {"11", "none", "unreadable"}}
    \cup {[GoodHost EXCEPT !.hostname = FALSE]}
    \cup {[GoodHost EXCEPT !.netifaces = v] : v \in {"absent", "error"}}
    \cup {[GoodHost EXCEPT !.ip = FALSE]}
    \cup {[GoodHost EXCEPT !.netifaces = "absent", !.ip = FALSE]}
    \cup {[GoodHost EXCEPT !.python_ok = FALSE]}
    \cup {[GoodHost EXCEPT !.tools = v] : v \in {"fail", "absent"}}
    \cup {[GoodHost EXCEPT !.services = FALSE]}
    \cup {[GoodHost EXCEPT !.node = v] :
             v \in {<<"v", "1", "6", ".", "0", "\n">>, <<"x", "\n">>, <<>>}}
    \cup {[GoodHost EXCEPT !.psql15 = FALSE]}
    \cup {[GoodHost EXCEPT !.groups = v] : v \in {"redis", "none", "unlisted"}}
    \cup {[GoodHost EXCEPT !.systemd = v] : v \in {"degraded", "offline"}}
    \cup {[GoodHost EXCEPT !.paths = v] :
             v \in {"readonly", "missing", "denied"}}
    \cup {[GoodHost EXCEPT !.files = v] :
             v \in {"incomplete", "unreadable", "missing"}}

\* self.expected_config
expected_config ==
    [node_min_version |-> 18,
     psql_banner |-> "psql (PostgreSQL) 15",
     container_ip |-> "10.1.1.120"]

\* What subprocess.run(command, capture_output=True, text=True, check=False)
\* gives: it raises when the command cannot be launched, or it returns the
\* return code, standard output and standard error of the command.
ProcError == [kind |-> "raised", returncode |-> 0, stdout |-> <<>>,
              stderr |-> <<>>]
ProcDone(rc, out, err) == [kind |-> "ran", returncode |-> rc, stdout |-> out,
                           stderr |-> err]

\* The outcome of command c on host h.  Output is a sequence of words,
\* that of node a sequence of characters.
CmdOutcome(h, c) ==
    IF h.tools = "absent" THEN ProcError
    ELSE IF h.tools = "fail" THEN ProcDone(1, <<>>, <<"error", "\n">>)
    ELSE CASE c = "ip addr show" ->
                 ProcDone(0, IF h.ip THEN <<"inet", "10.1.1.120", "\n">>
                                     ELSE <<"inet", "127.0.0.1", "\n">>, <<>>)
           [] c = "node --version" -> ProcDone(0, h.node, <<>>)
           [] c = "psql --version" ->
                 ProcDone(0, IF h.psql15
                             THEN <<"psql (PostgreSQL) 15", ".4", "\n">>
                             ELSE <<"psql (PostgreSQL) 13", ".9", "\n">>, <<>>)
           [] c \in {"systemctl is-active postgresql",
                     "systemctl is-active redis-server",
                     "systemctl is-active rabbitmq-server"} ->
                 IF h.services THEN ProcDone(0, <<"active", "\n">>, <<>>)
                               ELSE ProcDone(3, <<"inactive", "\n">>, <<>>)
           [] c = "id stock-analysis" ->
                 ProcDone(0,
                          CASE h.groups = "both" ->
                                  <<"uid=999", "groups=", "redis", "postgres",
                                    "\n">>
                            [] h.groups = "redis" ->
                                  <<"uid=999", "groups=", "redis", "\n">>
                            [] h.groups = "none" ->
                                  <<"uid=999", "groups=", "\n">>
                            [] h.groups = "unlisted" -> <<"uid=999", "\n">>,
                          <<>>)
           [] c = "systemctl is-system-running" ->
                 ProcDone(IF h.systemd = "running" THEN 0 ELSE 1,
                          <<h.systemd, "\n">>, <<>>)
           [] OTHER -> ProcDone(0, <<"version", "\n">>, <<>>)

\* The body of run_command: the triple it returns for outcome o.
CommandResult(o) ==
    IF o.kind = "raised"
    THEN [code |-> 0 - 1, stdout |-> <<>>, stderr |-> <<"str(e)">>]
    ELSE [code |-> o.returncode, stdout |-> o.stdout, stderr |-> o.stderr]

\* self.run_command(c) on host h
RunOn(h, c) == CommandResult(CmdOutcome(h, c))

\* x in s
Contains(s, x) == \E i \in 1..Len(s) : s[i] = x

\* s.split(x)[0]
RECURSIVE SplitFirst(_, _)
SplitFirst(s, x) == IF s = <<>> \/ s[1] = x THEN <<>>
                    ELSE <<s[1]>> \o SplitFirst(Tail(s), x)

\* s.split(x)[1], for s that contains x
RECURSIVE SplitSecond(_, _)
SplitSecond(s, x) == IF s[1] = x THEN SplitFirst(Tail(s), x)
                     ELSE SplitSecond(Tail(s), x)

\* s.replace(x, '')
RECURSIVE Remove(_, _)
Remove(s, x) == IF s = <<>> THEN <<>>
                ELSE IF s[1] = x THEN Remove(Tail(s), x)
                ELSE <<s[1]>> \o Remove(Tail(s), x)

\* What a test suite does, in program order: it is entered, it runs a
\* command, it logs with a tag, or an exception leaves it.
Enter(suite) == [ev |-> "enter", arg |-> suite]
RunEv(c) == [ev |-> "run", arg |-> c]
Pass == [ev |-> "log", arg |-> "PASS"]
Fail == [ev |-> "log", arg |-> "FAIL"]
Warn == [ev |-> "log", arg |-> "WARN"]
Raise == [ev |-> "raise", arg |-> "exception"]

\* code, _, _ = self.run_command(c); log_pass if code == 0 else log_fail
CmdCheck(h, c) == <<RunEv(c), IF RunOn(h, c).code = 0 THEN Pass ELSE Fail>>

\* test_system_info: the os-release check inside try/except Exception, then
\* the kernel line.
test_system_info(h) ==
    <<Enter("system info")>>
    \o <<IF h.os = "12" THEN Pass ELSE Fail>>
    \o <<Pass>>

\* test_network_configuration: the hostname, then the address through
\* netifaces; only ImportError is caught, and sends the suite to `ip`.
test_network_configuration(h) ==
    <<Enter("network")>>
    \o <<IF h.hostname THEN Pass ELSE Fail>>
    \o CASE h.netifaces = "present" -> <<IF h.ip THEN Pass ELSE Fail>>
         [] h.netifaces = "error" -> <<Raise>>
         [] h.netifaces = "absent" ->
               LET r == RunOn(h, "ip addr show")
               IN  <<RunEv("ip addr show"),
                     IF r.code = 0
                        /\ Contains(r.stdout, expected_config.container_ip)
                     THEN Pass ELSE Fail>>

\* test_python_environment
test_python_environment(h) ==
    <<Enter("python")>>
    \o <<IF h.python_ok THEN Pass ELSE Fail>>
    \o CmdCheck(h, "python3 -m pip --version")
    \o CmdCheck(h, "python3 -c import venv")
    \o CmdCheck(h, "uv --version")

\* test_nodejs_environment: the major version is parsed inside try/except.
test_nodejs_environment(h) ==
    LET r == RunOn(h, "node --version")
        version == Strip(r.stdout)
        major == ParseInt(Remove(SplitFirst(version, "."), "v"))
    IN  <<Enter("nodejs"), RunEv("node --version")>>
        \o <<IF r.code = 0
             THEN IF major.ok
                  THEN IF major.value >= expected_config.node_min_version
                       THEN Pass ELSE Fail
                  ELSE Fail
             ELSE Fail>>
        \o CmdCheck(h, "npm --version")

\* test_database_services
test_database_services(h) ==
    LET r == RunOn(h, "psql --version")
    IN  <<Enter("database services"), RunEv("psql --version")>>
        \o <<IF r.code = 0
             THEN IF Contains(r.stdout, expected_config.psql_banner)
                  THEN Pass ELSE Warn
             ELSE Fail>>
        \o CmdCheck(h, "systemctl is-active postgresql")
        \o CmdCheck(h, "redis-server --version")
        \o CmdCheck(h, "systemctl is-active redis-server")
        \o CmdCheck(h, "rabbitmqctl version")
        \o CmdCheck(h, "systemctl is-active rabbitmq-server")

\* required_dirs of test_directory_structure: the base directory, six
\* directories under it, /etc/stock-analysis and /var/log/stock-analysis.
NumDirs == 9

\* One round of the loop of test_directory_structure.  directory.exists()
\* is Path.stat() with only "no such file" errors turned into False: under
\* a base directory the user cannot search it raises PermissionError.
DirRound(h, i) ==
    CASE h.paths = "writable" -> <<Pass, Pass>>
      [] h.paths = "readonly" -> <<Pass, Warn>>
      [] h.paths = "missing" -> <<Fail>>
      [] h.paths = "denied" -> IF i = 1 THEN <<Pass, Warn>> ELSE <<Raise>>

RECURSIVE DirRounds(_, _)
DirRounds(h, i) == IF i > NumDirs THEN <<>>
                   ELSE DirRound(h, i) \o DirRounds(h, i + 1)

\* test_directory_structure
test_directory_structure(h) ==
    <<Enter("directory structure")>> \o DirRounds(h, 1)

\* test_service_user
test_service_user(h) ==
    LET r == RunOn(h, "id stock-analysis")
        groups == Strip(SplitSecond(r.stdout, "groups="))
    IN  <<Enter("service user"), RunEv("id stock-analysis")>>
        \o IF r.code = 0
           THEN <<Pass>>
                \o IF Contains(r.stdout, "groups=")
                   THEN <<IF Contains(groups, "redis") THEN Pass ELSE Warn,
                          IF Contains(groups, "postgres") THEN Pass ELSE Warn>>
                   ELSE <<>>
           ELSE <<Fail>>

\* template_files of test_systemd_configuration
NumTemplates == 3

\* test_systemd_configuration
test_systemd_configuration(h) ==
    LET r == RunOn(h, "systemctl is-system-running")
        template == IF h.files = "missing" THEN Fail ELSE Pass
    IN  <<Enter("systemd")>>
        \o CmdCheck(h, "systemctl --version")
        \o <<RunEv("systemctl is-system-running"),
             IF r.code = 0
                \/ Strip(r.stdout) \in {<<"running">>, <<"degraded">>}
             THEN Pass ELSE Fail>>
        \o [i \in 1..NumTemplates |-> template]

\* required_vars of test_environment_readiness
NumVars == 4

\* test_environment_readiness: the marker file under the base directory
\* and the environment file, each read inside try/except.
test_environment_readiness(h) ==
    <<Enter("environment readiness")>>
    \o (CASE h.paths = "denied" -> <<Raise>>
          [] h.paths = "missing" \/ h.files = "missing" -> <<Fail>>
          [] h.files = "complete" -> <<Pass, Pass>>
          [] h.files = "incomplete" -> <<Pass>>
          [] h.files = "unreadable" -> <<Pass, Warn>>)
    \o (CASE h.paths = "denied" -> <<>>
          [] h.files = "missing" -> <<Fail>>
          [] h.files = "complete" -> <<Pass>> \o [i \in 1..NumVars |-> Pass]
          [] h.files = "incomplete" -> <<Pass>> \o [i \in 1..NumVars |-> Fail]
          [] h.files = "unreadable" -> <<Pass, Warn>>)

\* run_all_tests calls the nine suites in this order.
SuiteOrder ==
    <<"system info", "network", "python", "nodejs", "database services",
      "directory structure", "service user", "systemd",
      "environment readiness">>

AllSuites(h) ==
    test_system_info(h) \o test_network_configuration(h)
    \o test_python_environment(h) \o test_nodejs_environment(h)
    \o test_database_services(h) \o test_directory_structure(h)
    \o test_service_user(h) \o test_systemd_configuration(h)
    \o test_environment_readiness(h)

\* Nothing runs after an exception has left a suite: run_all_tests and
\* __main__ have no try.
RECURSIVE UpToRaise(_)
UpToRaise(evs) == IF evs = <<>> THEN <<>>
                  ELSE IF evs[1].ev = "raise" THEN <<evs[1]>>
                  ELSE <<evs[1]>> \o UpToRaise(Tail(evs))

\* What run_all_tests does on host h before generate_report.
Program(h) == UpToRaise(AllSuites(h))

NoCommand == [code |-> 0, stdout |-> <<>>, stderr |-> <<>>]

\* InfrastructureTest.__init__ on host h.  k is the position in
\* Program(h), ran the suites entered, last the triple of the latest
\* run_command, ret and total the return value and the "Total Tests" line
\* of generate_report.
InfraNew(h) ==
    [pc |-> "new", k |-> 1, host |-> h, ran |-> <<>>,
     passed |-> 0, failed |-> 0, warnings |-> 0, test_results |-> <<>>,
     last |-> NoCommand, ret |-> 0, total |-> 0]

\* The next thing run_all_tests does is event e.
AtEvent(e) ==
    /\ infra.pc = "running"
    /\ infra.k <= Len(Program(infra.host))
    /\ Program(infra.host)[infra.k].ev = e

TheEvent == Program(infra.host)[infra.k]

\* tester.run_all_tests() of __main__, up to the first suite.
run_all_tests ==
    /\ infra.pc = "new"
    /\ infra' = [infra EXCEPT !.pc = "running"]
    /\ UNCHANGED <<static, conns, hc, is_ready, startup, now, req, hlog>>

\* self.test_...(): the next suite is entered (log_test prints its name).
enter_suite ==
    /\ AtEvent("enter")
    /\ infra' = [infra EXCEPT !.ran = Append(@, TheEvent.arg), !.k = @ + 1]
    /\ UNCHANGED <<static, conns, hc, is_ready, startup, now, req, hlog>>

\* A run_command that counts a command it could not launch as a failure.
run_command_counting ==
    /\ AtEvent("run")
    /\ LET o == CmdOutcome(infra.host, TheEvent.arg)
       IN  infra' = [infra EXCEPT
                       !.last = CommandResult(o),
                       !.failed = IF o.kind = "raised" THEN @ + 1 ELSE @,
                       !.k = @ + 1]
    /\ UNCHANGED <<static, conns, hc, is_ready, startup, now, req, hlog>>

\* run_command
run_command ==
    /\ AtEvent("run")
    /\ infra' = [infra EXCEPT
                   !.last = CommandResult(CmdOutcome(infra.host, TheEvent.arg)),
                   !.k = @ + 1]
    /\ UNCHANGED <<static, conns, hc, is_ready, startup, now, req, hlog>>

\* log_pass
log_pass ==
    /\ AtEvent("log") /\ TheEvent.arg = "PASS"
    /\ infra' = [infra EXCEPT !.passed = @ + 1,
                              !.test_results = Append(@, "PASS"),
                              !.k = @ + 1]
    /\ UNCHANGED <<static, conns, hc, is_ready, startup, now, req, hlog>>

\* log_fail
log_fail ==
    /\ AtEvent("log") /\ TheEvent.arg = "FAIL"
    /\ infra' = [infra EXCEPT !.failed = @ + 1,
                              !.test_results = Append(@, "FAIL"),
                              !.k = @ + 1]
    /\ UNCHANGED <<static, conns, hc, is_ready, startup, now, req, hlog>>

\* A log_warning that counts the warning as a failure.
log_warning_as_failure ==
    /\ AtEvent("log") /\ TheEvent.arg = "WARN"
    /\ infra' = [infra EXCEPT !.failed = @ + 1,
                              !.test_results = Append(@, "WARN"),
                              !.k = @ + 1]
    /\ UNCHANGED <<static, conns, hc, is_ready, startup, now, req, hlog>>

\* log_warning
log_warning ==
    /\ AtEvent("log") /\ TheEvent.arg = "WARN"
    /\ infra' = [infra EXCEPT !.warnings = @ + 1,
                              !.test_results = Append(@, "WARN"),
                              !.k = @ + 1]
    /\ UNCHANGED <<static, conns, hc, is_ready, startup, now, req, hlog>>

\* An exception leaves the suite, run_all_tests and the script: the
\* interpreter prints the traceback and ends.
suite_raises ==
    /\ AtEvent("raise")
    /\ infra' = [infra EXCEPT !.pc = "raised"]
    /\ UNCHANGED <<static, conns, hc, is_ready, startup, now, req, hlog>>

\* A generate_report that fails the run on warnings too.
generate_report_strict ==
    /\ infra.pc = "running" /\ infra.k > Len(Program(infra.host))
    /\ infra' = [infra EXCEPT
                   !.pc = "returned",
                   !.total = infra.passed + infra.failed,
                   !.ret = IF infra.failed + infra.warnings = 0 THEN 0 ELSE 1]
    /\ UNCHANGED <<static, conns, hc, is_ready, startup, now, req, hlog>>

\* generate_report, called when the ninth suite has returned; its return
\* value is the exit code of the script.
generate_report ==
    /\ infra.pc = "running" /\ infra.k > Len(Program(infra.host))
    /\ infra' = [infra EXCEPT
                   !.pc = "returned",
                   !.total = infra.passed + infra.failed,
                   !.ret = IF infra.failed = 0 THEN 0 ELSE 1]
    /\ UNCHANGED <<static, conns, hc, is_ready, startup, now, req, hlog>>

InfraNext ==
    \/ run_all_tests
    \/ enter_suite
    \/ run_command
    \/ log_pass
    \/ log_fail
    \/ log_warning
    \/ suite_raises
    \/ generate_report

\* ---- the service process ----

Init ==
    /\ impl \in {"generic", "core"}
    /\ environ = [v \in PortVars |-> Unset]
    /\ config = [v \in ReadVars(impl) |-> IntOfEnv(environ, impl, v).value]
    /\ phase = "constructed"
    /\ conns = 0
    /\ hc = HcIdle
    /\ infra = InfraNew(GoodHost)
    /\ service_name = IF impl = "core" THEN "intelligent-core-service"
                                       ELSE "example-service"
    /\ service_version = "1.0.0"
    /\ now = BootClock
    /\ startup_time = now
    /\ is_ready = FALSE
    /\ startup = [a \in Apps |-> IF impl = "core" /\ a = 1 THEN "pending"
                                                        ELSE "absent"]
    /\ req = Idle
    /\ hlog = <<>>

\* ---- construction of apps and the startup event ----

\* HealthChecker.create_health_app: builds one more app over the same
\* HealthChecker and registers its startup_event.  The intelligent-core
\* module has its single app at module level.
create_health_app ==
    /\ impl = "generic"
    /\ phase = "constructed"
    /\ LoopFree
    /\ \E a \in Apps :
          /\ startup[a] = "absent"
          /\ \A b \in Apps : b < a => startup[b] # "absent"
          /\ startup' = [startup EXCEPT ![a] = "pending"]
    /\ UNCHANGED <<static, conns, hc, infra,
                   is_ready, now, req, hlog>>

\* startup_event up to its await: the coroutine starts and suspends in
\* asyncio.sleep(2).
startup_sleep(a) ==
    /\ LoopFree
    /\ startup[a] = "pending"
    /\ startup' = [startup EXCEPT ![a] = "sleeping"]
    /\ UNCHANGED <<static, conns, hc, infra,
                   is_ready, now, req, hlog>>

\* startup_event after the sleep: is_ready = True.
startup_event(a) ==
    /\ LoopFree
    /\ startup[a] = "sleeping"
    /\ is_ready' = TRUE
    /\ startup' = [startup EXCEPT ![a] = "done"]
    /\ UNCHANGED <<static, conns, hc, infra,
                   now, req, hlog>>

\* ---- the wall clock ----

\* Time passes.
Tick ==
    /\ now < MaxClock
    /\ now' = now + 1
    /\ UNCHANGED <<static, conns, hc, infra,
                   is_ready, startup, req, hlog>>

\* The wall clock is set back (NTP step, administrator): datetime.utcnow()
\* is not a monotonic clock.
ClockStep ==
    /\ \E t \in Clock : t < now /\ now' = t
    /\ UNCHANGED <<static, conns, hc, infra,
                   is_ready, startup, req, hlog>>

\* ---- GET /health/live and GET / ----

\* A liveness probe that answers 503 until the service is ready.
liveness_check_gated ==
    /\ LoopFree /\ AppExists
    /\ req' = [Idle EXCEPT
                 !.endpoint = "/health/live", !.pc = "done", !.r0 = is_ready,
                 !.result = Returned(StatusCode(is_ready),
                                     [status |-> "alive",
                                      service |-> service_name])]
    /\ UNCHANGED <<static, conns, hc, infra,
                   is_ready, startup, now, hlog>>

\* liveness_check
liveness_check ==
    /\ LoopFree /\ AppExists
    /\ req' = [Idle EXCEPT
                 !.endpoint = "/health/live", !.pc = "done", !.r0 = is_ready,
                 !.result = Returned(HTTP_200_OK,
                                     [status |-> "alive",
                                      service |-> service_name])]
    /\ UNCHANGED <<static, conns, hc, infra,
                   is_ready, startup, now, hlog>>

\* root
root ==
    /\ LoopFree /\ AppExists
    /\ req' = [Idle EXCEPT
                 !.endpoint = "/", !.pc = "done", !.r0 = is_ready,
                 !.result = Returned(HTTP_200_OK,
                                     [service |-> service_name,
                                      version |-> service_version,
                                      health_endpoint |-> "/health"])]
    /\ UNCHANGED <<static, conns, hc, infra,
                   is_ready, startup, now, hlog>>

\* ---- GET /health ----

\* hlog keeps the last HistLen returned results, oldest first.
Remember(log, e) ==
    LET l == Append(log, e)
    IN  IF Len(l) > HistLen THEN SubSeq(l, Len(l) - HistLen + 1, Len(l)) ELSE l

\* A health check that takes a new startup_time with every request.
health_begin_restamp ==
    /\ LoopFree /\ AppExists
    /\ req' = [Idle EXCEPT
                 !.endpoint = "/health", !.pc = "metrics", !.r0 = is_ready,
                 !.loc = [NoLoc EXCEPT
                            !.uptime = now - startup_time,
                            !.status = StatusOf(is_ready),
                            !.ready = IF impl = "core" THEN is_ready
                                                       ELSE FALSE]]
    /\ startup_time' = now
    /\ UNCHANGED <<impl, service_name, service_version, environ, config,
                   phase, conns, hc, infra, is_ready, startup, now, hlog>>

\* health_check up to the metrics: uptime from the wall clock, the status
\* string from is_ready; the intelligent-core module also fills
\* details.ready before it calls psutil.
health_begin ==
    /\ LoopFree /\ AppExists
    /\ req' = [Idle EXCEPT
                 !.endpoint = "/health", !.pc = "metrics", !.r0 = is_ready,
                 !.loc = [NoLoc EXCEPT
                            !.uptime = now - startup_time,
                            !.status = StatusOf(is_ready),
                            !.ready = IF impl = "core" THEN is_ready
                                                       ELSE FALSE]]
    /\ UNCHANGED <<static, conns, hc, infra,
                   is_ready, startup, now, hlog>>

\* get_system_metrics / the psutil calls of the intelligent-core handler:
\* blocking calls into psutil with no try around them.  They return, or one
\* of them raises (psutil.Error, OSError) and the exception leaves the
\* handler.
get_system_metrics ==
    /\ req.endpoint = "/health" /\ req.pc = "metrics"
    /\ \E ok \in BOOLEAN :
          req' = IF ok THEN [req EXCEPT !.pc = "respond"]
                       ELSE [req EXCEPT !.pc = "done",
                                        !.result = Raised("psutil")]
    /\ UNCHANGED <<static, conns, hc, infra,
                   is_ready, startup, now, hlog>>

\* The rest of health_check: the generic module reads is_ready for
\* details.ready, both read it for the status code.
health_check ==
    /\ req.endpoint = "/health" /\ req.pc = "respond"
    /\ LET ready == IF impl = "generic" THEN is_ready ELSE req.loc.ready
           body == [status |-> req.loc.status,
                    service |-> service_name,
                    version |-> service_version,
                    uptime_seconds |-> req.loc.uptime,
                    details |-> [ready |-> ready]]
           res == Returned(StatusCode(is_ready), body)
       IN  /\ req' = [req EXCEPT !.pc = "done", !.loc.ready = ready,
                                 !.result = res]
           /\ hlog' = Remember(hlog, [r0 |-> req.r0, result |-> res])
    /\ UNCHANGED <<static, conns, hc, infra,
                   is_ready, startup, now>>

\* ---- GET /health/ready ----

\* The steps of check_database, check_redis and check_rabbitmq that talk to
\* the dependency, and conn.close() of check_database, in program order.
ProbePcs == {"db_connect", "db_query", "db_close", "redis_ping",
             "mq_connect", "mq_close"}

DepOf(pc) == CASE pc \in {"db_connect", "db_query", "db_close"} -> "database"
               [] pc = "redis_ping" -> "redis"
               [] pc \in {"mq_connect", "mq_close"} -> "rabbitmq"

\* The statement after pc inside its try block; "return" is `return True`.
NextInProbe(pc) == CASE pc = "db_connect" -> "db_query"
                     [] pc = "db_query" -> "db_close"
                     [] pc = "db_close" -> "return"
                     [] pc = "redis_ping" -> "return"
                     [] pc = "mq_connect" -> "mq_close"
                     [] pc = "mq_close" -> "return"

\* A readiness status that takes the broker before the cache.
AfterProbeBrokerFirst(d) == CASE d = "database" -> "mq_connect"
                              [] d = "rabbitmq" -> "redis_ping"
                              [] d = "redis" -> "respond"

\* get_readiness_status awaits the three checks one after the other.
AfterProbe(d) == CASE d = "database" -> "redis_ping"
                   [] d = "redis" -> "mq_connect"
                   [] d = "rabbitmq" -> "respond"

\* What a probe step does when the dependency behaves as m.
\* psycopg2.connect(**self.postgres_config) and redis.Redis(**self.redis_config)
\* are given no timeout: against a silent peer they block without end.
\* pika.BlockingConnection gives up on a silent peer (socket and stack
\* timeouts of ConnectionParameters) and raises.  conn.close() of psycopg2
\* does not wait for the server.
StepOutcome(pc, m) ==
    CASE pc \in {"db_connect", "db_query", "redis_ping"} ->
            (CASE m = "up" -> "ok" [] m = "down" -> "raise"
               [] m = "silent" -> "hang")
      [] pc = "db_close" -> "ok"
      [] pc \in {"mq_connect", "mq_close"} ->
            (IF m = "up" THEN "ok" ELSE "raise")

\* The first statement of each probe.
FirstSteps == {"db_connect", "redis_ping", "mq_connect"}

\* The program points at which the running probe holds an open connection
\* in a local variable (conn, connection).
HoldingPcs == {"db_query", "db_close", "mq_close"}

\* What a step does to the number of open connections.
\* check_database: psycopg2.connect opens one, conn.close() closes it; when
\* cursor.execute raises, conn.close() is skipped.
\* check_redis: r.ping() makes the client connect; nothing closes the client,
\* neither after a pong nor after an error once connected.
\* check_rabbitmq: BlockingConnection opens one, connection.close() ends it,
\* also when the close handshake fails because the stream is lost.
\* A peer that accepts and stays silent has the socket open.
ConnDelta(pc, out) ==
    CASE pc = "db_connect" -> (IF out = "raise" THEN 0 ELSE 1)
      [] pc = "db_query" -> 0
      [] pc = "db_close" -> 0 - 1
      [] pc = "redis_ping" -> (IF out = "raise" THEN 0 ELSE 1)
      [] pc = "mq_connect" -> (IF out = "ok" THEN 1 ELSE 0)
      [] pc = "mq_close" -> 0 - 1

\* A probe whose except clause does not cover the error of its step: the
\* exception leaves the probe and the handler.
check_step_uncaught ==
    /\ req.endpoint = "/health/ready" /\ req.pc \in ProbePcs
    /\ \E m \in Modes :
          LET d == DepOf(req.pc)
              out == StepOutcome(req.pc, m)
              seen == IF req.pc = "db_close" THEN req.obs
                      ELSE [req.obs EXCEPT ![d] = Append(@, m)]
              called == IF req.pc \in FirstSteps
                        THEN Append(req.trace, Call(d)) ELSE req.trace
              returned == Append(called, Return(d))
          IN  /\ req' = CASE out = "hang" ->
                               [req EXCEPT !.pc = "blocked", !.obs = seen,
                                           !.trace = called]
                          [] out = "raise" ->
                               [req EXCEPT !.pc = "done", !.obs = seen,
                                           !.trace = called,
                                           !.result = Raised(d)]
                          [] out = "ok" /\ NextInProbe(req.pc) = "return" ->
                               [req EXCEPT !.pc = AfterProbe(d), !.obs = seen,
                                           !.trace = returned,
                                           !.loc[d] = TRUE]
                          [] OTHER ->
                               [req EXCEPT !.pc = NextInProbe(req.pc),
                                           !.obs = seen, !.trace = called]
              /\ conns' = conns + ConnDelta(req.pc, out)
    /\ UNCHANGED <<static, hc, infra,
                   is_ready, startup, now, hlog>>

\* One step of check_database / check_redis / check_rabbitmq.  `return True`
\* after the last statement of the try block, `return False` from
\* `except Exception`; a step that never returns leaves the handler, and
\* with it the event loop, inside the blocking call.
check_step ==
    /\ req.endpoint = "/health/ready" /\ req.pc \in ProbePcs
    /\ \E m \in Modes :
          LET d == DepOf(req.pc)
              out == StepOutcome(req.pc, m)
              seen == IF req.pc = "db_close" THEN req.obs
                      ELSE [req.obs EXCEPT ![d] = Append(@, m)]
              called == IF req.pc \in FirstSteps
                        THEN Append(req.trace, Call(d)) ELSE req.trace
              returned == Append(called, Return(d))
          IN  /\ req' = CASE out = "hang" ->
                               [req EXCEPT !.pc = "blocked", !.obs = seen,
                                           !.trace = called]
                          [] out = "raise" ->
                               [req EXCEPT !.pc = AfterProbe(d), !.obs = seen,
                                           !.trace = returned,
                                           !.loc[d] = FALSE]
                          [] out = "ok" /\ NextInProbe(req.pc) = "return" ->
                               [req EXCEPT !.pc = AfterProbe(d), !.obs = seen,
                                           !.trace = returned,
                                           !.loc[d] = TRUE]
                          [] OTHER ->
                               [req EXCEPT !.pc = NextInProbe(req.pc),
                                           !.obs = seen, !.trace = called]
              /\ conns' = conns + ConnDelta(req.pc, out)
    /\ UNCHANGED <<static, hc, infra,
                   is_ready, startup, now, hlog>>

\* A readiness check that skips the probes while the service is not ready.
readiness_begin_shortcut ==
    /\ impl = "generic"
    /\ LoopFree /\ AppExists
    /\ conns + Cardinality(Deps) <= MaxConns
    /\ req' = [Idle EXCEPT
                 !.endpoint = "/health/ready",
                 !.pc = IF is_ready THEN "db_connect" ELSE "respond",
                 !.r0 = is_ready, !.prior = PriorOf(req),
                 !.loc.service = is_ready]
    /\ UNCHANGED <<static, conns, hc, infra,
                   is_ready, startup, now, hlog>>

\* readiness_check of the generic module up to the first probe:
\* "service": self.is_ready.
readiness_begin ==
    /\ impl = "generic"
    /\ LoopFree /\ AppExists
    /\ conns + Cardinality(Deps) <= MaxConns
    /\ req' = [Idle EXCEPT
                 !.endpoint = "/health/ready", !.pc = "db_connect",
                 !.r0 = is_ready, !.prior = PriorOf(req),
                 !.loc.service = is_ready]
    /\ UNCHANGED <<static, conns, hc, infra,
                   is_ready, startup, now, hlog>>

\* A readiness check that writes its verdict back into is_ready.
readiness_check_rollback ==
    /\ impl = "generic"
    /\ req.endpoint = "/health/ready" /\ req.pc = "respond"
    /\ LET checks == [service |-> req.loc.service,
                      database |-> req.loc.database,
                      redis |-> req.loc.redis,
                      rabbitmq |-> req.loc.rabbitmq]
           all_ready == AllValues(checks)
       IN  /\ req' = [req EXCEPT
                        !.pc = "done", !.loc.ready = all_ready,
                        !.result = Returned(StatusCode(all_ready),
                                            [ready |-> all_ready,
                                             service |-> service_name,
                                             checks |-> checks])]
           /\ is_ready' = all_ready
    /\ UNCHANGED <<static, conns, hc, infra,
                   startup, now, hlog>>

\* A readiness check that remembers a failed verdict: after a request that
\* answered ready:false the next one answers ready:false without regard to
\* its own probes.
readiness_check_cached ==
    /\ impl = "generic"
    /\ req.endpoint = "/health/ready" /\ req.pc = "respond"
    /\ LET checks == [service |-> req.loc.service,
                      database |-> req.loc.database,
                      redis |-> req.loc.redis,
                      rabbitmq |-> req.loc.rabbitmq]
           all_ready == AllValues(checks) /\ req.prior # "notready"
       IN  req' = [req EXCEPT
                     !.pc = "done", !.loc.ready = all_ready,
                     !.result = Returned(StatusCode(all_ready),
                                         [ready |-> all_ready,
                                          service |-> service_name,
                                          checks |-> checks])]
    /\ UNCHANGED <<static, conns, hc, infra,
                   is_ready, startup, now, hlog>>

\* The rest of get_readiness_status and readiness_check of the generic module.
readiness_check ==
    /\ impl = "generic"
    /\ req.endpoint = "/health/ready" /\ req.pc = "respond"
    /\ LET checks == [service |-> req.loc.service,
                      database |-> req.loc.database,
                      redis |-> req.loc.redis,
                      rabbitmq |-> req.loc.rabbitmq]
           all_ready == AllValues(checks)
       IN  req' = [req EXCEPT
                     !.pc = "done", !.loc.ready = all_ready,
                     !.result = Returned(StatusCode(all_ready),
                                         [ready |-> all_ready,
                                          service |-> service_name,
                                          checks |-> checks])]
    /\ UNCHANGED <<static, conns, hc, infra,
                   is_ready, startup, now, hlog>>

\* check_database_connection / check_redis_connection /
\* check_rabbitmq_connection of the intelligent-core module: `return True`
\* whatever the dependency does.
check_connection(d, m) == TRUE

\* An intelligent-core readiness check that answers from its probes alone.
core_readiness_check_probes_only ==
    /\ impl = "core"
    /\ LoopFree /\ AppExists
    /\ \E env \in [Deps -> Modes] :
          LET checks == [database |-> check_connection("database", env["database"]),
                         redis |-> check_connection("redis", env["redis"]),
                         rabbitmq |-> check_connection("rabbitmq", env["rabbitmq"])]
              all_ready == AllValues(checks)
          IN  req' = [Idle EXCEPT
                        !.endpoint = "/health/ready", !.pc = "done",
                        !.r0 = is_ready, !.prior = PriorOf(req),
                        !.obs = [d \in Deps |-> <<env[d]>>],
                        !.trace = <<Call("database"), Return("database"),
                                    Call("redis"), Return("redis"),
                                    Call("rabbitmq"), Return("rabbitmq")>>,
                        !.loc = [NoLoc EXCEPT !.database = checks.database,
                                              !.redis = checks.redis,
                                              !.rabbitmq = checks.rabbitmq,
                                              !.ready = all_ready],
                        !.result = Returned(StatusCode(all_ready),
                                            [ready |-> all_ready,
                                             service |-> service_name,
                                             checks |-> checks])]
    /\ UNCHANGED <<static, conns, hc, infra,
                   is_ready, startup, now, hlog>>

\* readiness_check of the intelligent-core module.  env is what the three
\* dependencies are doing while the request is handled; the handler has no
\* blocking call.
core_readiness_check ==
    /\ impl = "core"
    /\ LoopFree /\ AppExists
    /\ \E env \in [Deps -> Modes] :
          LET checks == [database |-> check_connection("database", env["database"]),
                         redis |-> check_connection("redis", env["redis"]),
                         rabbitmq |-> check_connection("rabbitmq", env["rabbitmq"])]
              all_ready == AllValues(checks) /\ is_ready
          IN  req' = [Idle EXCEPT
                        !.endpoint = "/health/ready", !.pc = "done",
                        !.r0 = is_ready, !.prior = PriorOf(req),
                        !.obs = [d \in Deps |-> <<env[d]>>],
                        !.trace = <<Call("database"), Return("database"),
                                    Call("redis"), Return("redis"),
                                    Call("rabbitmq"), Return("rabbitmq")>>,
                        !.loc = [NoLoc EXCEPT !.database = checks.database,
                                              !.redis = checks.redis,
                                              !.rabbitmq = checks.rabbitmq,
                                              !.ready = all_ready],
                        !.result = Returned(StatusCode(all_ready),
                                            [ready |-> all_ready,
                                             service |-> service_name,
                                             checks |-> checks])]
    /\ UNCHANGED <<static, conns, hc, infra,
                   is_ready, startup, now, hlog>>

\* ---- construction from the environment ----

\* HealthChecker.__init__ / the module level of the intelligent-core health
\* module: every port variable the module reads goes through int(); a
\* ValueError leaves __init__ (the import) and the process ends before an
\* app is served.  The intelligent-core module registers its handlers and
\* its startup event on its module-level app after SERVICE_PORT is parsed.
construct ==
    /\ phase = "new"
    /\ LET parsed == [v \in ReadVars(impl) |-> IntOfEnv(environ, impl, v)]
       IN  IF \A v \in ReadVars(impl) : parsed[v].ok
           THEN /\ phase' = "constructed"
                /\ config' = [v \in ReadVars(impl) |-> parsed[v].value]
                /\ startup_time' = now
                /\ is_ready' = FALSE
                /\ startup' = [a \in Apps |->
                                 IF impl = "core" /\ a = 1 THEN "pending"
                                                           ELSE "absent"]
           ELSE /\ phase' = "failed"
                /\ UNCHANGED <<config, startup_time, is_ready, startup>>
    /\ UNCHANGED <<impl, service_name, service_version, environ, conns, hc,
                   infra,
                   now, req, hlog>>

\* The process before its health module is constructed, in any environment.
CfgInit ==
    /\ impl \in {"generic", "core"}
    /\ environ \in [PortVars -> EnvValues]
    /\ config = NoConfig
    /\ phase = "new"
    /\ conns = 0
    /\ hc = HcIdle
    /\ infra = InfraNew(GoodHost)
    /\ service_name = IF impl = "core" THEN "intelligent-core-service"
                                       ELSE "example-service"
    /\ service_version = "1.0.0"
    /\ now = BootClock
    /\ startup_time = now
    /\ is_ready = FALSE
    /\ startup = [a \in Apps |-> "absent"]
    /\ req = Idle
    /\ hlog = <<>>

\* Construction, the startup of the apps and the two handlers that touch
\* nothing outside the process.
CfgNext ==
    \/ construct
    \/ create_health_app
    \/ \E a \in Apps : startup_sleep(a)
    \/ \E a \in Apps : startup_event(a)
    \/ liveness_check
    \/ root

CfgSpec == CfgInit /\ [][CfgNext]_vars

\* ---- what happens around the handlers ----

\* The connections the running probe still refers to.
Held == IF req.pc \in HoldingPcs \cup {"blocked"} THEN 1 ELSE 0

\* Python finalizes a connection object that a returned probe left open
\* (the psycopg2 connection, the redis client): the socket is closed then,
\* whenever the interpreter gets to it.
finalize ==
    /\ conns > Held
    /\ conns' = conns - 1
    /\ UNCHANGED <<static, hc, infra, is_ready, startup, now, req, hlog>>

\* ---- the process ----

Next ==
    \/ create_health_app
    \/ \E a \in Apps : startup_sleep(a)
    \/ \E a \in Apps : startup_event(a)
    \/ Tick
    \/ ClockStep
    \/ liveness_check
    \/ root
    \/ health_begin
    \/ get_system_metrics
    \/ health_check
    \/ readiness_begin
    \/ check_step
    \/ readiness_check
    \/ core_readiness_check
    \/ finalize

Spec == Init /\ [][Next]_vars

\* The event loop runs every coroutine step that is ready: a handler that can
\* take its next step takes it, and a startup event whose sleep is over is
\* resumed the next time the loop is free, however many requests keep
\* arriving (the loop serves its ready callbacks in turn).
\* Nothing obliges a client to send a request or the clock to move.
HandlerStep == get_system_metrics \/ health_check \/ check_step \/ readiness_check

FairSpec ==
    /\ Spec
    /\ WF_vars(HandlerStep)
    /\ \A a \in Apps : SF_vars(startup_event(a))

\* One run of the LXC health-check script on a host; the service process
\* plays no part in it.
ScriptInit == Init /\ impl = "generic"

ScriptSpec == ScriptInit /\ [][ScriptNext]_vars

\* The infrastructure test started on any of the hosts.
InfraInit ==
    /\ impl = "generic"
    /\ environ = [v \in PortVars |-> Unset]
    /\ config = [v \in ReadVars(impl) |-> IntOfEnv(environ, impl, v).value]
    /\ phase = "constructed"
    /\ conns = 0
    /\ hc = HcIdle
    /\ infra \in {InfraNew(h) : h \in Hosts}
    /\ service_name = "example-service"
    /\ service_version = "1.0.0"
    /\ now = BootClock
    /\ startup_time = now
    /\ is_ready = FALSE
    /\ startup = [a \in Apps |-> "absent"]
    /\ req = Idle
    /\ hlog = <<>>

InfraSpec == InfraInit /\ [][InfraNext]_vars

TypeOK ==
    /\ impl \in {"generic", "core"}
    /\ is_ready \in BOOLEAN
    /\ now \in Clock
    /\ startup_time \in Clock
    /\ startup \in [Apps -> {"absent", "pending", "sleeping", "done"}]
    /\ Len(hlog) <= HistLen
    /\ req.pc \in {"none", "done", "blocked", "metrics", "respond"} \cup ProbePcs

\* ---- vocabulary of the properties ----

HealthDone == req.endpoint = "/health" /\ req.pc = "done"
LiveDone == req.endpoint = "/health/live" /\ req.pc = "done"
ReadyDone == req.endpoint = "/health/ready" /\ req.pc = "done"

IsHealthy(res) ==
    res.kind = "response" /\ res.code = 200 /\ res.body.status = "healthy"
IsStarting(res) ==
    res.kind = "response" /\ res.code = 503 /\ res.body.status = "starting"

\* The network steps of the probe of dependency d, in program order.
NetSteps(d) == CASE d = "database" -> <<"db_connect", "db_query">>
                 [] d = "redis" -> <<"redis_ping">>
                 [] d = "rabbitmq" -> <<"mq_connect", "mq_close">>

\* Some step of the probe of d raised during the current request.
ProbeRaised(d) ==
    \E i \in 1..Len(req.obs[d]) :
        StepOutcome(NetSteps(d)[i], req.obs[d][i]) = "raise"

\* d answered every time the current request talked to it / did not answer
\* when the current request was handled.
Reachable(d) ==
    /\ req.obs[d] # <<>>
    /\ \A i \in 1..Len(req.obs[d]) : req.obs[d][i] = "up"
Unreachable(d) ==
    /\ req.obs[d] # <<>>
    /\ \A i \in 1..Len(req.obs[d]) : req.obs[d][i] = "down"

\* ---- C1 ----
\* C1: a /health request handled while is_ready was still false returns
\* 503 "starting", one handled after is_ready was set returns 200 "healthy",
\* and no 503 "starting" response follows a 200 "healthy" one.
C1_HealthFollowsStartup ==
    /\ HealthDone =>
          /\ req.result.kind = "response"
          /\ req.r0 => IsHealthy(req.result)
          /\ ~req.r0 => IsStarting(req.result)
    /\ \A i, j \in 1..Len(hlog) :
          (i < j /\ IsHealthy(hlog[i].result)) => ~IsStarting(hlog[j].result)

\* ---- C2 ----
\* C2: is_ready starts false and every step of every operation either leaves
\* it alone or takes it from false to true; nothing takes it back to false.
C2_ReadyMonotonic ==
    /\ is_ready = FALSE
    /\ [][is_ready => is_ready']_vars

\* Both apps of one HealthChecker have run their startup event and a
\* readiness request has since answered with a failed dependency check.
C2_Witness ==
    /\ is_ready
    /\ startup[1] = "done" /\ startup[2] = "done"
    /\ ReadyDone /\ req.r0
    /\ req.result.body.ready = FALSE

\* ---- C3 ----
\* C3: a /health/ready response is ready:true with 200 exactly when is_ready
\* was true and the database, redis and rabbitmq probes of that request all
\* returned true; otherwise it is ready:false with 503.
C3_ReadyIffAllChecks ==
    ReadyDone =>
        /\ req.result.kind = "response"
        /\ LET all4 == req.r0 /\ req.loc.database /\ req.loc.redis
                              /\ req.loc.rabbitmq
           IN  /\ all4 => (req.result.body.ready = TRUE /\ req.result.code = 200)
               /\ ~all4 => (req.result.body.ready = FALSE /\ req.result.code = 503)

\* A generic readiness request answered 200 ready:true.
C3_Witness ==
    /\ impl = "generic" /\ ReadyDone
    /\ req.result.code = 200 /\ req.result.body.ready = TRUE
    /\ req.r0 /\ req.loc.database /\ req.loc.redis /\ req.loc.rabbitmq

\* ---- C4 ----
\* C4: every /health/live response is 200 with status "alive" and the
\* service name, whatever is_ready is and whatever the dependencies do.
C4_LiveAlways200 ==
    LiveDone =>
        req.result = Returned(200, [status |-> "alive", service |-> service_name])

\* A liveness request answered while the service was not ready.
C4_Witness ==
    /\ LiveDone /\ ~req.r0 /\ ~is_ready
    /\ req.result.code = 200

\* ---- C5 ----
\* C5: when a step of check_database, check_redis or check_rabbitmq raises,
\* nothing propagates out of the readiness request, the probe's value is
\* false, and the response that is returned carries ready and checks with
\* false for that dependency.
C5_ProbeErrorIsFalse ==
    (impl = "generic" /\ req.endpoint = "/health/ready") =>
        /\ req.result.kind # "raised"
        /\ \A d \in Deps :
              ProbeRaised(d) =>
                  /\ req.loc[d] = FALSE
                  /\ req.pc = "done" =>
                        /\ req.result.kind = "response"
                        /\ req.result.body.checks[d] = FALSE
                        /\ req.result.body.ready = FALSE

\* A readiness request in which the query of check_database raised after a
\* successful connect, and which was answered.
C5_Witness ==
    /\ impl = "generic" /\ ReadyDone
    /\ req.obs["database"] = <<"up", "down">>
    /\ req.result.kind = "response"

\* ---- C6 ----
\* C6: no handler lets an error escape: every handled request ends in a
\* returned JSON body with a status code.
C6_NoErrorEscapes ==
    req.pc = "done" => req.result.kind = "response"

\* ---- C7 ----
\* C7: every /health response has code 200 or 503, and in it code 200, status
\* "healthy" and details.ready = true go together, as do 503, "starting" and
\* details.ready = false.
C7_HealthSignalsAgree ==
    HealthDone =>
        /\ req.result.kind = "response"
        /\ req.result.code \in {200, 503}
        /\ (req.result.code = 200) <=> (req.result.body.status = "healthy")
        /\ (req.result.code = 200) <=> (req.result.body.details.ready = TRUE)
        /\ (req.result.code = 503) <=> (req.result.body.status = "starting")

\* ---- C8 ----
\* C8: after startup, a /health/ready request handled while database and
\* redis are reachable and rabbitmq is not returns 503, ready:false and
\* checks service:true, database:true, redis:true, rabbitmq:false, in the
\* generic module and in the intelligent-core module.
C8_BrokerDownScenario ==
    (ReadyDone /\ req.r0 /\ Reachable("database") /\ Reachable("redis")
               /\ Unreachable("rabbitmq")) =>
        /\ req.result.kind = "response"
        /\ req.result.code = 503
        /\ req.result.body.ready = FALSE
        /\ DOMAIN req.result.body.checks
              = {"service", "database", "redis", "rabbitmq"}
        /\ req.result.body.checks = [service |-> TRUE, database |-> TRUE,
                                     redis |-> TRUE, rabbitmq |-> FALSE]

\* ---- C9 ----
\* C9: every /health/ready request is eventually answered, whatever the
\* dependencies do.
C9_ReadinessAnswers ==
    (req.endpoint = "/health/ready") ~> (req.pc = "done")

\* ---- C10 ----
\* C10: uptime_seconds of a /health response is never negative, and a later
\* response never reports less than an earlier one.
C10_UptimeMonotonic ==
    /\ \A i \in 1..Len(hlog) : hlog[i].result.body.uptime_seconds >= 0
    /\ \A i, j \in 1..Len(hlog) :
          i < j => hlog[i].result.body.uptime_seconds
                      <= hlog[j].result.body.uptime_seconds

\* ---- C11 ----
\* What a probe of d returns when the dependency does o[d] at its steps:
\* true exactly when every network step of the probe got an answer.  The
\* intelligent-core probes return true whatever the dependency does.
ProbeValue(i, d, o) ==
    IF i = "core" THEN TRUE
    ELSE /\ Len(o[d]) = Len(NetSteps(d))
         /\ \A k \in 1..Len(o[d]) : o[d][k] = "up"

\* The readiness response as a function of the module, the current is_ready
\* and what the dependencies currently do, and of nothing else.
FreshReadiness(i, name, r, o) ==
    LET db == ProbeValue(i, "database", o)
        rd == ProbeValue(i, "redis", o)
        mq == ProbeValue(i, "rabbitmq", o)
        ok == r /\ db /\ rd /\ mq
    IN  [kind |-> "response",
         code |-> IF ok THEN 200 ELSE 503,
         body |-> [ready |-> ok, service |-> name,
                   checks |-> IF i = "core"
                              THEN [database |-> db, redis |-> rd,
                                    rabbitmq |-> mq]
                              ELSE [service |-> r, database |-> db,
                                    redis |-> rd, rabbitmq |-> mq]]]

\* C11: readiness results are not cached: the response of a /health/ready
\* request is determined by the current is_ready and by what database, redis
\* and rabbitmq do during this request, so two runs that agree on these get
\* the same ready, checks and status code whatever happened before.
C11_ReadinessIsFresh ==
    ReadyDone => req.result = FreshReadiness(impl, service_name, req.r0, req.obs)

\* A readiness request answered ready:true with 200 right after one that was
\* answered ready:false.
C11_Witness ==
    /\ ReadyDone /\ req.prior = "notready"
    /\ req.result.code = 200 /\ req.result.body.ready = TRUE

\* ---- C12 ----
\* C12: the health-check script runs all eight checks whatever the earlier
\* ones gave, reports one entry per check, sets healthy to the AND of the
\* eight results and exits with 0 exactly when healthy is true, else with 1.
C12_ScriptReportsAll ==
    hc.pc = "exited" =>
        /\ Len(hc.checks) = 8
        /\ hc.report.printed
        /\ Len(hc.report.checks) = 8
        /\ \A i \in 1..8 : hc.report.checks[i].name = CheckNames[i]
        /\ hc.report.healthy = (\A i \in 1..8 : hc.report.checks[i].healthy)
        /\ hc.exit \in {0, 1}
        /\ (hc.exit = 0) <=> (\A i \in 1..8 : hc.checks[i].healthy)

\* ---- C13 ----
\* How often the probe of d was called during the current request.
Calls(d) == Cardinality({k \in 1..Len(req.trace) : req.trace[k] = Call(d)})

\* C13: a /health/ready request calls the probe of each dependency exactly
\* once: never a second time, and by the time it answers all three have
\* been called, also when is_ready is false or an earlier probe failed.
C13_OneProbeEach ==
    req.endpoint = "/health/ready" =>
        \A d \in Deps :
            /\ Calls(d) <= 1
            /\ req.pc \in {"respond", "done"} => Calls(d) = 1

\* A request answered while is_ready was false and the database probe had
\* failed at its first step, with redis and rabbitmq probed all the same.
C13_Witness ==
    /\ impl = "generic" /\ ReadyDone /\ ~req.r0
    /\ req.obs["database"] = <<"down">>
    /\ req.result.body.checks["database"] = FALSE
    /\ Calls("database") = 1 /\ Calls("redis") = 1 /\ Calls("rabbitmq") = 1

\* ---- C14 ----
\* The current request is a readiness request inside one of its probes.
InProbe == req.endpoint = "/health/ready" /\ req.pc \in ProbePcs \cup {"blocked"}

\* C14: a /health/live request does not wait for a dependency probe: while a
\* readiness request of the same process is inside a probe, the liveness
\* handler can run and answer before that probe returns.
C14_LiveDuringProbe == InProbe => ENABLED liveness_check

\* ---- C15 ----
\* C15: when a probe returns, no connection it opened is still open: the only
\* open probe connection at any time is the one the running probe is using,
\* and none is open once the readiness request has answered.
C15_NoOpenConnections == conns = Held

\* ---- C16 ----
\* C16: only the startup event writes is_ready; once a startup event has been
\* invoked is_ready eventually becomes true; and as long as is_ready is false
\* every /health response is 503 "starting".
C16_StartupOnlyWriter ==
    /\ [][is_ready' # is_ready =>
             \E a \in Apps : startup[a] = "sleeping" /\ startup'[a] = "done"]_vars
    /\ \A a \in Apps : (startup[a] = "sleeping") ~> is_ready
    /\ [](HealthDone /\ ~is_ready => IsStarting(req.result))

\* ---- C17 ----
\* C17: no step of a request handler (/health, /health/live, /health/ready,
\* /) changes is_ready, startup_time, service_name, service_version or the
\* configuration read from the environment, and startup_time never changes
\* after construction.
C17_HandlersKeepState ==
    /\ [][req' # req =>
             UNCHANGED <<is_ready, startup_time, service_name,
                         service_version, config, environ>>]_vars
    /\ [][startup_time' = startup_time]_vars

\* Requests of different endpoints have been handled, the clock has moved
\* on, and the state is as construction and startup left it.
C17_Witness ==
    /\ ReadyDone /\ Len(hlog) = HistLen
    /\ is_ready
    /\ now # startup_time /\ startup_time = BootClock
    /\ config["SERVICE_PORT"] = 8000

\* ---- C18 ----
\* The keys of the checks mapping of a readiness response; the cache entry
\* is keyed "redis" and the broker entry "rabbitmq".
CheckKeys == {"service", "database", "redis", "rabbitmq"}

\* C18: every /health/ready response carries a checks mapping with the four
\* entries service, database, cache (redis) and broker (rabbitmq), and its
\* ready field is the AND of the values shown in that mapping.
C18_ReadyIsAndOfShown ==
    ReadyDone /\ req.result.kind = "response" =>
        /\ DOMAIN req.result.body.checks = CheckKeys
        /\ req.result.body.ready = AllValues(req.result.body.checks)

\* ---- C19 ----
\* The events of one readiness request when the three probes run one at a
\* time in the order database, redis, rabbitmq.
ProbeOrder ==
    <<Call("database"), Return("database"), Call("redis"), Return("redis"),
      Call("rabbitmq"), Return("rabbitmq")>>

IsPrefix(s, t) == Len(s) <= Len(t) /\ SubSeq(t, 1, Len(s)) = s

\* C19: in a /health/ready request of the generic HealthChecker the probes
\* run one at a time in the order database, redis, rabbitmq: a probe is
\* called only after the previous one has returned, and the response is
\* built only after the third has returned.
C19_ProbesInOrder ==
    impl = "generic" /\ req.endpoint = "/health/ready" =>
        /\ IsPrefix(req.trace, ProbeOrder)
        /\ req.pc \in {"respond", "done"} => req.trace = ProbeOrder
        /\ req.pc \in ProbePcs =>
              /\ Calls(DepOf(req.pc)) =
                    (IF req.pc \in FirstSteps THEN 0 ELSE 1)
              /\ \A d \in Deps \ {DepOf(req.pc)} :
                    Calls(d) = 1 =>
                       \E k \in 1..Len(req.trace) : req.trace[k] = Return(d)

\* A generic readiness request has been answered after its three probes,
\* the first of which failed.
C19_Witness ==
    /\ impl = "generic" /\ ReadyDone
    /\ req.result.kind = "response"
    /\ req.trace = ProbeOrder
    /\ ~req.result.body.checks.database
    /\ req.result.body.checks.rabbitmq

\* ---- C20 ----
\* A port variable is set to a string int() rejects.
Malformed(vs) == \E v \in vs : environ[v].set /\ ~ParseInt(environ[v].val).ok

\* Some handler can start on a request.
CanServe ==
    \/ ENABLED liveness_check
    \/ ENABLED root
    \/ ENABLED health_begin
    \/ ENABLED readiness_begin
    \/ ENABLED core_readiness_check

\* Nothing of the health module exists.
NothingBuilt ==
    /\ config = NoConfig /\ ~is_ready
    /\ ~AppExists
    /\ req = Idle /\ ~CanServe

\* C20: when one of SERVICE_PORT, POSTGRES_PORT, REDIS_PORT, RABBITMQ_PORT
\* does not parse as an integer, construction fails: no health state, no
\* app, no request answered; with every variable unset construction
\* succeeds with the default ports (8000 generic, 8001 intelligent-core).
C20_BadPortFailsConstruction ==
    /\ Malformed(PortVars) => phase # "constructed" /\ NothingBuilt
    /\ phase = "failed" => NothingBuilt
    /\ (\A v \in PortVars : ~environ[v].set) /\ phase # "new" =>
          /\ phase = "constructed"
          /\ config = [v \in ReadVars(impl) |-> DefaultPort(impl, v)]
          /\ config["SERVICE_PORT"] = (IF impl = "core" THEN 8001 ELSE 8000)

\* ---- C21 ----
\* What a caller acts on in a response: the status code and the status
\* string (the ready flag of a readiness response).
Signal(res) ==
    [code |-> res.code,
     word |-> IF "status" \in DOMAIN res.body THEN res.body.status
              ELSE IF res.body.ready THEN "ready" ELSE "not ready"]

\* The signal of endpoint e when is_ready is r, written without reference
\* to the module that serves it.
SignalFor(e, r) ==
    CASE e = "/health" -> [code |-> StatusCode(r), word |-> StatusOf(r)]
      [] e = "/health/live" -> [code |-> HTTP_200_OK, word |-> "alive"]
      [] e = "/health/ready" ->
            [code |-> StatusCode(r),
             word |-> IF r THEN "ready" ELSE "not ready"]

ReportedSuccess(name, o) ==
    /\ o.kind = "ran"
    /\ IF name = "redis" THEN Strip(o.stdout) = PONG ELSE o.returncode = 0

\* The message of the except clause of check `name`.
FailureMessage(name) ==
    CASE name = "postgresql" -> <<"PostgreSQL check failed">>
      [] name = "redis" -> <<"Redis check failed">>
      [] name = "rabbitmq" -> <<"RabbitMQ check failed">>
      [] OTHER -> <<"Failed to check", name>>

\* The pair the latest check function returned.
LastCheck == hc.checks[Len(hc.checks)]

\* C22: no check function of the script raises: when its command cannot be
\* launched or run the function returns (False, message of its except
\* clause), it returns True only when the command reported success, and the
\* script never ends inside a check.
C22_ChecksNeverRaise ==
    /\ hc.pc = "checks" /\ hc.checks # <<>> =>
          /\ hc.last.kind = "raised" =>
                /\ ~LastCheck.healthy
                /\ LastCheck.message = FailureMessage(LastCheck.name)
          /\ LastCheck.healthy => ReportedSuccess(LastCheck.name, hc.last)
    /\ hc.pc = "exited" => Len(hc.checks) = Len(CheckNames)
    /\ hc.pc = "checks" /\ Len(hc.checks) < Len(CheckNames) =>
          ENABLED hc_check

\* pg_isready succeeded and redis-cli could not be launched: check_redis
\* returned False with its failure message and the script goes on.
C22_Witness ==
    /\ hc.pc = "checks" /\ Len(hc.checks) = 2
    /\ hc.checks[1].healthy
    /\ hc.last = NotLaunched
    /\ ~hc.checks[2].healthy
    /\ hc.checks[2].message = <<"Redis check failed">>

\* ---- C23 ----
\* C23: main() of the health-check script always prints its report and
\* then exits with 0 or 1 according to the report, whatever pg_isready,
\* redis-cli, rabbitmqctl, systemctl and date do (succeed, fail, or are
\* absent); it never ends with an uncaught exception and no report.
C23_MainAlwaysReports ==
    hc.pc = "exited" =>
        /\ hc.report.printed
        /\ hc.exit = (IF hc.report.healthy THEN 0 ELSE 1)

\* ---- C28 ----
\* C28: check_redis reports healthy exactly when the stripped standard
\* output of redis-cli is PONG, whatever its return code; check_postgresql,
\* check_rabbitmq and check_service_status report healthy exactly when the
\* return code of their command is 0, whatever its output.
C28_HealthyCriteria ==
    hc.pc = "checks" /\ hc.checks # <<>> /\ hc.last.kind = "ran" =>
        IF LastCheck.name = "redis"
        THEN LastCheck.healthy <=> (Strip(hc.last.stdout) = PONG)
        ELSE LastCheck.healthy <=> (hc.last.returncode = 0)

\* redis-cli printed PONG and a newline and ended with return code 1:
\* check_redis reported healthy; pg_isready before it had ended with 0.
C28_Witness ==
    /\ hc.pc = "checks" /\ Len(hc.checks) = 2
    /\ hc.checks[1].healthy
    /\ hc.last = Ran(1, PONG \o <<"\n">>)
    /\ hc.checks[2].healthy

\* ---- C24 ----
\* The number of test_results entries with tag t.
Tagged(t) ==
    Cardinality({i \in 1..Len(infra.test_results) : infra.test_results[i] = t})

IsLog(e) == e.ev = "log"

\* The tags of the log calls made so far, in the order of the calls.
Logged ==
    LET done == SelectSeq(SubSeq(Program(infra.host), 1,
                                 IF infra.pc = "new" THEN 0 ELSE infra.k - 1),
                          IsLog)
    IN  [i \in 1..Len(done) |-> done[i].arg]

\* C24: after any sequence of log_pass, log_fail and log_warning calls,
\* passed + failed + warnings is the length of test_results, each counter
\* is the number of entries with its tag, and the entries are in the order
\* of the calls.
C24_CountersMatchResults ==
    /\ infra.passed + infra.failed + infra.warnings = Len(infra.test_results)
    /\ infra.passed = Tagged("PASS")
    /\ infra.failed = Tagged("FAIL")
    /\ infra.warnings = Tagged("WARN")
    /\ infra.pc # "raised" => infra.test_results = Logged

\* All three log functions have been called more than once, the latest
\* call a warning after a pass.
C24_Witness ==
    /\ infra.passed > 1 /\ infra.failed > 1 /\ infra.warnings > 1
    /\ Len(infra.test_results) > 6
    /\ infra.test_results[Len(infra.test_results)] = "WARN"
    /\ infra.test_results[Len(infra.test_results) - 1] = "PASS"

\* ---- C25 ----
\* C25: generate_report returns 0 exactly when failed is 0 and 1 otherwise,
\* whatever the number of warnings; the total it reports is passed + failed;
\* it changes no counter and no entry of test_results.
C25_ReportReturn ==
    /\ [](infra.pc = "returned" =>
             /\ infra.ret = (IF infra.failed = 0 THEN 0 ELSE 1)
             /\ infra.total = infra.passed + infra.failed
             /\ infra.total = Len(infra.test_results) - infra.warnings)
    /\ [][infra.pc # "returned" /\ infra'.pc = "returned" =>
             /\ infra'.passed = infra.passed
             /\ infra'.failed = infra.failed
             /\ infra'.warnings = infra.warnings
             /\ infra'.test_results = infra.test_results]_vars

\* The report of a run with warnings and no failure returned 0.
C25_Witness ==
    /\ infra.pc = "returned"
    /\ infra.warnings > 0 /\ infra.failed = 0 /\ infra.passed > 0
    /\ infra.ret = 0

\* ---- C26 ----
\* C26: run_all_tests runs the nine suites in their fixed order and then
\* generate_report, whatever the suites record: no suite stops the ones
\* after it and the report is always reached.
C26_AllSuitesThenReport ==
    /\ IsPrefix(infra.ran, SuiteOrder)
    /\ infra.pc = "returned" => infra.ran = SuiteOrder
    /\ infra.pc # "raised"

\* ---- C27 ----
\* run_command has just returned.
AfterRun ==
    /\ infra.pc = "running" /\ infra.k > 1
    /\ Program(infra.host)[infra.k - 1].ev = "run"

\* C27: run_command never raises: for a command that cannot be launched it
\* returns (-1, '', error text), otherwise the return code, stdout and
\* stderr of the command as they are; it changes no counter and no entry
\* of test_results.
C27_RunCommandTotal ==
    /\ [](AfterRun =>
             LET o == CmdOutcome(infra.host,
                                 Program(infra.host)[infra.k - 1].arg)
             IN  IF o.kind = "raised"
                 THEN /\ infra.last.code = 0 - 1
                      /\ infra.last.stdout = <<>>
                      /\ infra.last.stderr = <<"str(e)">>
                 ELSE /\ infra.last.code = o.returncode
                      /\ infra.last.stdout = o.stdout
                      /\ infra.last.stderr = o.stderr)
    /\ [](infra.pc = "raised" => Program(infra.host)[infra.k].ev = "raise")
    /\ [][AtEvent("run") =>
             /\ infra'.pc = "running"
             /\ infra'.passed = infra.passed
             /\ infra'.failed = infra.failed
             /\ infra'.warnings = infra.warnings
             /\ infra'.test_results = infra.test_results]_vars

\* A command could not be launched: run_command returned -1 and the suite
\* goes on, with the counters as the earlier checks left them.
C27_Witness ==
    /\ AfterRun
    /\ CmdOutcome(infra.host, Program(infra.host)[infra.k - 1].arg).kind
          = "raised"
    /\ infra.last.code = 0 - 1
    /\ infra.passed > 0 /\ infra.failed > 0

====
